---------------------------- MODULE Spec2Model ----------------------------
(***************************************************************************)
(* A model of the two scripts of the DRN talk-page pipeline:               *)
(*   scrape_drn.py      fetches the noticeboard page, extracts its Talk:   *)
(*                      links and fetches each linked page's wikitext;     *)
(*   fetch_talkpages.py reads a file of links and fetches each linked      *)
(*                      page's wikitext once per title (cached_pages).     *)
(* A run is one execution of either main(); `prog` says which.             *)
(*                                                                         *)
(* Strings are sequences of tokens.  A token stands for one character or   *)
(* for a fixed substring ("https://en.wikipedia.org", "/wiki/", "Talk:",   *)
(* a percent escape); no token is a prefix of another, so the order of     *)
(* token sequences is the order of the strings they stand for.             *)
(* Python's None is the empty tuple and a value v that may be None is      *)
(* <<v>>.                                                                  *)
(***************************************************************************)
EXTENDS Integers, Sequences, FiniteSets, TLC

VARIABLES
    prog,           \* "fetch" (fetch_talkpages.main) or "scrape" (scrape_drn.main)
    html,           \* scrape: the hrefs of the <a> elements of the page served
    limit,          \* scrape: the --limit argument
    waited,         \* the seconds spent so far waiting for the responses to requests
    links,          \* fetch: the urls of the input file; scrape: talk_links
    found,          \* scrape: extract_talk_links_from_html(html), before [:limit]
    i,              \* position in links of the link being processed
    pc,             \* "seed", "loop", "fetch", "done", "aborted"
    attempt,        \* the retry loop's variable: attempts that have failed
    cached_pages,   \* fetch: title -> data
    out,            \* the records written to the output file
    events          \* history: requests, sleeps, returns and writes, in order

vars == <<prog, waited, html, limit, links, found, i, pc, attempt, cached_pages, out, events>>

(***************************************************************************)
(* Bounds of the model.                                                    *)
(***************************************************************************)
MaxLinks == 2
MaxHrefs == 3
MaxPath == 4
MaxLiveLinks == 2
MaxLatency == 3

(***************************************************************************)
(* Program constants.                                                      *)
(***************************************************************************)
Retries == 3
SLEEP_SECONDS == 1
BackoffBase == 2

WIKI_BASE == <<"https://en.wikipedia.org">>
WikiPath == <<"/wiki/">>
UrlPrefix == WIKI_BASE \o WikiPath

None == <<>>
Some(v) == <<v>>

(***************************************************************************)
(* Strings.                                                                *)
(***************************************************************************)
StartsWith(s, p) == Len(s) >= Len(p) /\ SubSeq(s, 1, Len(p)) = p

\* str.replace(old, ""): every occurrence of old, left to right, is removed
RECURSIVE Remove(_, _)
Remove(s, old) ==
    IF s = <<>> THEN <<>>
    ELSE IF StartsWith(s, old) THEN Remove(SubSeq(s, Len(old) + 1, Len(s)), old)
    ELSE <<Head(s)>> \o Remove(Tail(s), old)

\* the position of the first c in s, 0 when there is none
RECURSIVE Find(_, _)
Find(s, c) ==
    IF s = <<>> THEN 0
    ELSE IF Head(s) = c THEN 1
    ELSE IF Find(Tail(s), c) = 0 THEN 0 ELSE 1 + Find(Tail(s), c)

\* urllib.parse.unquote, on the escapes of the model's alphabet
UnquoteToken(c) ==
    CASE c = "%58" -> "X"
      [] c = "%23" -> "#"
      [] OTHER -> c

unquote(s) == [k \in 1..Len(s) |-> UnquoteToken(s[k])]

\* mutant of split_title_and_anchor: the fragment is left in the title
SplitKeepsFragment(url) == <<unquote(Remove(url, UrlPrefix)), None>>

\* split_title_and_anchor(url) = <<title, anchor>>, anchor None or Some(string)
split_title_and_anchor(url) ==
    LET path == Remove(url, UrlPrefix)
        k == Find(path, "#")
    IN IF k > 0
       THEN <<unquote(SubSeq(path, 1, k - 1)), Some(unquote(SubSeq(path, k + 1, Len(path))))>>
       ELSE <<unquote(path), None>>

(***************************************************************************)
(* The MediaWiki API.  A response is an HTTP failure (session.get or       *)
(* raise_for_status raises) or the decoded JSON body.                      *)
(***************************************************************************)
HttpError == [error |-> TRUE]
Rev(content, ts) == [slots |-> [main |-> [content |-> content]], timestamp |-> Some(ts)]
Body(pages) == [query |-> [pages |-> pages]]

ApiResponses ==
    { HttpError,
      Body(<<>>),
      Body(<<[missing |-> TRUE]>>),
      Body(<<[revisions |-> <<>>]>>),
      Body(<<[revisions |-> <<Rev("foo", "t1")>>]>>),
      Body(<<[revisions |-> <<Rev("bar", "t2")>>]>>) }

\* lines 46-61 of fetch_talkpages.py (76-86 of scrape_drn.py): None or Some(data)
ParseResponse(body) ==
    LET pages == body.query.pages IN
    IF pages = <<>> THEN None
    ELSE LET page == pages[1] IN
         IF "missing" \in DOMAIN page THEN None
         ELSE IF "revisions" \notin DOMAIN page \/ page.revisions = <<>> THEN None
         ELSE LET rev == page.revisions[1] IN
              Some([wikitext |-> rev.slots.main.content, timestamp |-> rev.timestamp])

\* what a response is, for the history
Class(resp) ==
    IF resp = HttpError THEN "error"
    ELSE IF ParseResponse(resp) = None THEN "absent" ELSE "present"

(***************************************************************************)
(* History.                                                                *)
(***************************************************************************)
Ev(e, l, w, s) == [ev |-> e, link |-> l, what |-> w, secs |-> s]
\* session.get; secs are the seconds of sleeps: what a request takes is in waited
Request(l, resp) == Ev("request", l, Class(resp), 0)
Backoff(l, s) == Ev("backoff", l, "", s)
Polite(l) == Ev("polite", l, "", SLEEP_SECONDS)
Return(l, w) == Ev("return", l, w, 0)
Write(l) == Ev("write", l, "", 0)
Hit(l) == Ev("hit", l, "", 0)

\* the seconds that a session.get can take, each call its own
Durations == {0, MaxLatency}

\* session.get returns or raises after d seconds
Wait(d) == waited' = waited + d

RECURSIVE SumSecs(_)
SumSecs(es) == IF es = <<>> THEN 0 ELSE Head(es).secs + SumSecs(Tail(es))

\* time.gmtime(), in seconds since the start of the run: the seconds spent
\* sleeping and waiting for responses
Now == SumSecs(events) + waited

(***************************************************************************)
(* fetch_talkpages.py                                                      *)
(***************************************************************************)
Urls ==
    { UrlPrefix \o <<"Talk:", "X", "#", "A">>,
      UrlPrefix \o <<"Talk:", "%58", "#", "B">>,
      UrlPrefix \o <<"Talk:", "Y">> }

RECURSIVE SeqsUpTo(_, _)
SeqsUpTo(S, n) ==
    IF n = 0 THEN {<<>>}
    ELSE LET shorter == SeqsUpTo(S, n - 1) IN
         shorter \cup {Append(s, x) : s \in {t \in shorter : Len(t) = n - 1}, x \in S}

InitFetch ==
    /\ prog = "fetch"
    /\ links \in SeqsUpTo(Urls, MaxLinks)
    /\ html = <<>>
    /\ limit = 0
    /\ waited = 0
    /\ found = <<>>
    /\ i = 1
    /\ pc = "loop"
    /\ attempt = 0
    /\ cached_pages = <<>>
    /\ out = <<>>
    /\ events = <<>>

Title == split_title_and_anchor(links[i])[1]
Anchor == split_title_and_anchor(links[i])[2]

\* cached_pages[title] = data
DictSet(d, k, v) == [x \in DOMAIN d \cup {k} |-> IF x = k THEN v ELSE d[x]]

\* lines 118-125: the record of link i, from the cache c
FetchRecord(c, now) ==
    [title |-> Title, anchor |-> Anchor, url |-> links[i],
     wikitext |-> c[Title].wikitext,
     revision_timestamp |-> c[Title].timestamp,
     fetched_at |-> now]

\* mutant of Emit: the record is put first in the file
EmitFirst(file, record) == <<record>> \o file

\* mutant of Emit: the file is opened anew, in mode "w", for every record
EmitTruncating(file, record) == <<record>>

\* fout.write(json.dumps(output) + "\n"), line 127 (134 of scrape_drn.py)
Emit(file, record) == Append(file, record)

\* mutant of ReadLine: the cache is not looked up
ReadLineRefetches ==
    /\ prog = "fetch" /\ pc = "loop" /\ i <= Len(links)
    /\ pc' = "fetch"
    /\ attempt' = 0
    /\ UNCHANGED <<out, events, i>>
    /\ UNCHANGED <<prog, waited, html, limit, links, found, cached_pages>>

\* lines 101-108, and 118-127 when the title is cached
ReadLine ==
    /\ prog = "fetch" /\ pc = "loop" /\ i <= Len(links)
    /\ IF Title \in DOMAIN cached_pages
       THEN /\ out' = Emit(out, FetchRecord(cached_pages, Now))
            /\ events' = events \o <<Hit(i), Write(i)>>
            /\ i' = i + 1
            /\ UNCHANGED <<pc, attempt>>
       ELSE /\ pc' = "fetch"
            /\ attempt' = 0
            /\ UNCHANGED <<out, events, i>>
    /\ UNCHANGED <<prog, waited, html, limit, links, found, cached_pages>>

\* lines 111-113: fetch_wikitext_via_api returned None
FetchNone(es) ==
    /\ events' = events \o es \o <<Return(i, "None")>>
    /\ i' = i + 1
    /\ pc' = "loop"
    /\ UNCHANGED <<cached_pages, out>>

\* lines 114-127: fetch_wikitext_via_api returned data
FetchData(es, data) ==
    LET c == DictSet(cached_pages, Title, data)
        es2 == events \o es \o <<Return(i, "data"), Polite(i)>>
    IN /\ cached_pages' = c
       /\ out' = Emit(out, FetchRecord(c, SumSecs(es2) + waited'))
       /\ events' = Append(es2, Write(i))
       /\ i' = i + 1
       /\ pc' = "loop"

\* mutant of AttemptFails: the same delay after every attempt
AttemptFailsFlatDelay ==
    /\ prog = "fetch" /\ pc = "fetch" /\ attempt < Retries
    /\ \E d \in Durations : Wait(d)
    /\ attempt' = attempt + 1
    /\ LET es == <<Request(i, HttpError), Backoff(i, BackoffBase)>> IN
       IF attempt + 1 < Retries
       THEN /\ events' = events \o es
            /\ UNCHANGED <<i, pc, cached_pages, out>>
       ELSE FetchNone(es)
    /\ UNCHANGED <<prog, html, limit, links, found>>

\* mutant of AttemptFails: nothing is returned after the last failed attempt
AttemptFailsStuck ==
    /\ prog = "fetch" /\ pc = "fetch" /\ attempt < Retries
    /\ \E d \in Durations : Wait(d)
    /\ attempt' = attempt + 1
    /\ events' = events \o <<Request(i, HttpError), Backoff(i, BackoffBase * (attempt + 1))>>
    /\ UNCHANGED <<i, pc, cached_pages, out>>
    /\ UNCHANGED <<prog, html, limit, links, found>>

\* lines 43-45 raise, 63-65; after the last attempt 67-68 and main's 111-113
AttemptFails ==
    /\ prog = "fetch" /\ pc = "fetch" /\ attempt < Retries
    /\ \E d \in Durations : Wait(d)
    /\ attempt' = attempt + 1
    /\ LET es == <<Request(i, HttpError), Backoff(i, BackoffBase * (attempt + 1))>> IN
       IF attempt + 1 < Retries
       THEN /\ events' = events \o es
            /\ UNCHANGED <<i, pc, cached_pages, out>>
       ELSE FetchNone(es)
    /\ UNCHANGED <<prog, html, limit, links, found>>

\* mutant of AttemptAnswers: a response without a page counts as a failed attempt
AttemptAnswersRetryingAbsent ==
    /\ prog = "fetch" /\ pc = "fetch" /\ attempt < Retries
    /\ \E d \in Durations : Wait(d)
    /\ \E resp \in ApiResponses \ {HttpError} :
         LET data == ParseResponse(resp)
             es == <<Request(i, resp), Backoff(i, BackoffBase * (attempt + 1))>>
         IN
         IF data = None
         THEN /\ attempt' = attempt + 1
              /\ IF attempt + 1 < Retries
                 THEN /\ events' = events \o es
                      /\ UNCHANGED <<i, pc, cached_pages, out>>
                 ELSE FetchNone(es)
         ELSE /\ FetchData(<<Request(i, resp)>>, data[1])
              /\ UNCHANGED attempt
    /\ UNCHANGED <<prog, html, limit, links, found>>

\* lines 43-61: a response arrives, and main's 111-127
AttemptAnswers ==
    /\ prog = "fetch" /\ pc = "fetch" /\ attempt < Retries
    /\ \E d \in Durations : Wait(d)
    /\ \E resp \in ApiResponses \ {HttpError} :
         LET data == ParseResponse(resp) IN
         IF data = None
         THEN FetchNone(<<Request(i, resp)>>)
         ELSE FetchData(<<Request(i, resp)>>, data[1])
    /\ UNCHANGED <<prog, html, limit, links, found, attempt>>

\* lines 129-130
FetchDone ==
    /\ prog = "fetch" /\ pc = "loop" /\ i > Len(links)
    /\ pc' = "done"
    /\ UNCHANGED <<prog, waited, html, limit, links, found, i, attempt, cached_pages, out, events>>

(***************************************************************************)
(* scrape_drn.py                                                           *)
(***************************************************************************)
\* the tokens in the order of the strings they stand for
TokenOrder ==
    <<"#", "%23", "%58", "/wiki/", "A", "B", "Dispute_resolution_noticeboard/Archive_1",
      "SectionA", "SectionB", "Talk:", "Wikipedia:", "X", "Y", "Z",
      "https://en.wikipedia.org">>

Rank(c) == CHOOSE k \in 1..Len(TokenOrder) : TokenOrder[k] = c

\* s < t as Python compares strings
RECURSIVE Less(_, _)
Less(s, t) ==
    IF t = <<>> THEN FALSE
    ELSE IF s = <<>> THEN TRUE
    ELSE IF Head(s) = Head(t) THEN Less(Tail(s), Tail(t))
    ELSE Rank(Head(s)) < Rank(Head(t))

\* sorted(S) of a set of strings
RECURSIVE sorted(_)
sorted(S) ==
    IF S = {} THEN <<>>
    ELSE LET m == CHOOSE x \in S : \A y \in S \ {x} : Less(x, y)
         IN <<m>> \o sorted(S \ {m})

\* urljoin(WIKI_BASE, href) of an href that starts with "/": the path is kept,
\* and so is the fragment unless it is empty ("...#" loses its "#")
urljoin(base, href) ==
    IF Find(href, "#") > 0 /\ Find(href, "#") = Len(href)
    THEN base \o SubSeq(href, 1, Len(href) - 1)
    ELSE base \o href

TalkPrefix == <<"/wiki/", "Talk:">>

\* the urls of the Talk: links of doc, each once, in the order of first occurrence
RECURSIVE FirstOccurrences(_)
FirstOccurrences(doc) ==
    IF doc = <<>> THEN <<>>
    ELSE LET before == FirstOccurrences(SubSeq(doc, 1, Len(doc) - 1))
             full == urljoin(WIKI_BASE, doc[Len(doc)])
         IN IF StartsWith(doc[Len(doc)], TalkPrefix) /\ \A k \in 1..Len(before) : before[k] # full
            THEN Append(before, full)
            ELSE before

\* mutant of extract_talk_links_from_html: a list in place of the sorted set
ExtractUnsorted(doc) == FirstOccurrences(doc)

\* lines 46-56
extract_talk_links_from_html(doc) ==
    sorted({urljoin(WIKI_BASE, doc[k]) : k \in {j \in 1..Len(doc) : StartsWith(doc[j], TalkPrefix)}})

\* s[:n], line 100: the first n elements, all but the last -n when n < 0
Take(s, n) ==
    LET stop == IF n < 0 THEN Len(s) + n ELSE n IN
    SubSeq(s, 1, IF stop < 0 THEN 0 ELSE IF stop < Len(s) THEN stop ELSE Len(s))

\* lines 115-119: the title of a url, its fragment dropped
ScrapeTitle(url) ==
    LET path == Remove(url, WIKI_BASE)
        k == Find(path, "#")
        nofrag == IF k > 0 THEN SubSeq(path, 1, k - 1) ELSE path
    IN unquote(Remove(nofrag, WikiPath))

Hrefs ==
    { <<"/wiki/", "Talk:", "Y">>,
      <<"/wiki/", "Talk:", "X", "#", "A">>,
      <<"/wiki/", "Talk:", "X">>,
      <<"/wiki/", "Wikipedia:", "Dispute_resolution_noticeboard/Archive_1">> }

InitScrape ==
    /\ prog = "scrape"
    /\ html \in SeqsUpTo(Hrefs, MaxHrefs)
    /\ limit \in {0 - 1, 1, MaxHrefs}
    /\ waited = 0
    /\ links = <<>>
    /\ found = <<>>
    /\ i = 1
    /\ pc = "seed"
    /\ attempt = 0
    /\ cached_pages = <<>>
    /\ out = <<>>
    /\ events = <<>>

\* get_html, lines 36-44: an attempt fails; after the last one line 44 raises
\* and main, which does not catch it at line 96, ends
SeedFails ==
    /\ prog = "scrape" /\ pc = "seed" /\ attempt < Retries
    /\ \E d \in Durations : Wait(d)
    /\ attempt' = attempt + 1
    /\ events' = events \o <<Request(0, HttpError), Backoff(0, BackoffBase * (attempt + 1))>>
    /\ pc' = IF attempt + 1 < Retries THEN "seed" ELSE "aborted"
    /\ UNCHANGED <<prog, html, limit, links, found, i, cached_pages, out>>

\* mutant of SeedArrives: get_html sleeps after the attempt that succeeded
SeedArrivesSleeping ==
    /\ prog = "scrape" /\ pc = "seed" /\ attempt < Retries
    /\ \E d \in Durations : Wait(d)
    /\ events' = events \o <<Ev("request", 0, "present", 0),
                             Backoff(0, BackoffBase * (attempt + 1))>>
    /\ found' = extract_talk_links_from_html(html)
    /\ links' = Take(extract_talk_links_from_html(html), limit)
    /\ pc' = "loop"
    /\ UNCHANGED <<prog, html, limit, i, attempt, cached_pages, out>>

\* get_html, lines 38-40: the page arrives; main's lines 97-107
SeedArrives ==
    /\ prog = "scrape" /\ pc = "seed" /\ attempt < Retries
    /\ \E d \in Durations : Wait(d)
    /\ events' = Append(events, Ev("request", 0, "present", 0))
    /\ found' = extract_talk_links_from_html(html)
    /\ links' = Take(extract_talk_links_from_html(html), limit)
    /\ pc' = "loop"
    /\ UNCHANGED <<prog, html, limit, i, attempt, cached_pages, out>>

\* lines 127-133
ScrapeRecord(data, now) ==
    [title |-> ScrapeTitle(links[i]), url |-> links[i],
     wikitext |-> data.wikitext,
     fetched_at |-> now,
     revision_timestamp |-> data.timestamp]

\* mutant of ScrapeRaises: main does not catch the exception
ScrapeRaisesUncaught(resp) ==
    /\ events' = events \o <<Request(i, resp), Return(i, "raise")>>
    /\ out' = out
    /\ i' = i
    /\ pc' = "aborted"

\* lines 136-138: the request raises, main catches it and goes on
ScrapeRaises(resp) ==
    /\ events' = events \o <<Request(i, resp), Return(i, "raise"), Polite(i)>>
    /\ out' = out
    /\ i' = i + 1
    /\ pc' = pc

\* lines 123-126: no such page
ScrapeNone(resp) ==
    /\ events' = events \o <<Request(i, resp), Return(i, "None"), Polite(i)>>
    /\ out' = out
    /\ i' = i + 1
    /\ pc' = pc

\* lines 127-135 and 138
ScrapeData(resp, data) ==
    /\ events' = events \o <<Request(i, resp), Return(i, "data"), Write(i), Polite(i)>>
    /\ out' = Emit(out, ScrapeRecord(data, SumSecs(events) + waited'))
    /\ i' = i + 1
    /\ pc' = pc

\* lines 113-138: one link
ScrapeLink ==
    /\ prog = "scrape" /\ pc = "loop" /\ i <= Len(links)
    /\ \E d \in Durations : Wait(d)
    /\ \E resp \in ApiResponses :
         IF resp = HttpError THEN ScrapeRaises(resp)
         ELSE IF ParseResponse(resp) = None THEN ScrapeNone(resp)
         ELSE ScrapeData(resp, ParseResponse(resp)[1])
    /\ UNCHANGED <<prog, html, limit, links, found, attempt, cached_pages>>

\* line 139
ScrapeDone ==
    /\ prog = "scrape" /\ pc = "loop" /\ i > Len(links)
    /\ pc' = "done"
    /\ UNCHANGED <<prog, waited, html, limit, links, found, i, attempt, cached_pages, out, events>>

Init == InitFetch \/ InitScrape

Next ==
    \/ ReadLine \/ AttemptFails \/ AttemptAnswers \/ FetchDone
    \/ SeedFails \/ SeedArrives \/ ScrapeLink \/ ScrapeDone

Spec == Init /\ [][Next]_vars

(***************************************************************************)
(* Reading the history.                                                    *)
(***************************************************************************)
EvIdx == 1..Len(events)
LinkIdx == 1..Len(links)

\* the events of kind e of link l
Count(l, e) == Len(SelectSeq(events, LAMBDA x : x.link = l /\ x.ev = e))

\* the requests of link l that were answered with class w
CountClass(l, w) ==
    Len(SelectSeq(events, LAMBDA x : x.link = l /\ x.ev = "request" /\ x.what = w))

\* the titles of the urls that Urls and Hrefs give, computed once
FetchTitles == [u \in Urls |-> split_title_and_anchor(u)[1]]
ScrapeTitles == [u \in {WIKI_BASE \o h : h \in Hrefs} |-> ScrapeTitle(u)]

TitleOf(l) ==
    IF prog = "fetch"
    THEN IF links[l] \in Urls THEN FetchTitles[links[l]]
         ELSE split_title_and_anchor(links[l])[1]
    ELSE IF links[l] \in DOMAIN ScrapeTitles THEN ScrapeTitles[links[l]]
         ELSE ScrapeTitle(links[l])

\* link l went to the network
Fetched(l) == Count(l, "request") > 0

\* link l has been dealt with
Processed(l) == l < i

\* the resolution of link l gave a page: from the cache or from the API
ResolvedPresent(l) == Count(l, "hit") > 0 \/ CountClass(l, "present") > 0

\* the API said there is no such page, or no revision of it
ResolvedAbsent(l) == CountClass(l, "absent") > 0

\* every attempt of link l failed
Exhausted(l) == CountClass(l, "error") = Retries

\* the events of link l
EventsOf(l) == SelectSeq(events, LAMBDA e : e.link = l)

\* among the events es of one link: those of kind e, the requests answered
\* with class w, the seconds of the backoff sleeps
CountIn(es, e) == Len(SelectSeq(es, LAMBDA x : x.ev = e))
ClassIn(es, w) == Len(SelectSeq(es, LAMBDA x : x.ev = "request" /\ x.what = w))
BackoffsIn(es) ==
    LET b == SelectSeq(es, LAMBDA x : x.ev = "backoff")
    IN [k \in 1..Len(b) |-> b[k].secs]

\* the links of the records written, in the order written
WriteLinks ==
    LET w == SelectSeq(events, LAMBDA e : e.ev = "write")
    IN [k \in 1..Len(w) |-> w[k].link]

(***************************************************************************)
(* C1  Idempotent caching: of two links with the same title processed by   *)
(* fetch_talkpages.main, whatever the first resolution gave (a page, no    *)
(* page, a transport failure), the second one issues no request, and its   *)
(* result is that of the first.                                            *)
(***************************************************************************)
C1_IdempotentCaching ==
    prog = "fetch" =>
        \A l1, l2 \in LinkIdx :
            (l1 < l2 /\ Processed(l1) /\ TitleOf(l1) = TitleOf(l2)) =>
                /\ ~Fetched(l2)
                /\ Processed(l2) => (ResolvedPresent(l2) <=> ResolvedPresent(l1))

(***************************************************************************)
(* C2  Join completeness: every processed link whose title resolved        *)
(* present has exactly one record, every link whose title resolved absent  *)
(* or failed has none, the loop ends only after the last link and no link  *)
(* aborts the run; and the records of the links into one page share one    *)
(* resolution: the page is fetched once, and they carry the same text and  *)
(* the same revision timestamp.                                            *)
(***************************************************************************)
\* one record for a link that resolved present, none for the others, no abort
C2_OneRecordPerLink ==
    /\ \A l \in LinkIdx :
         LET es == EventsOf(l) IN
         CountIn(es, "write") =
            IF Processed(l) /\ (CountIn(es, "hit") > 0 \/ ClassIn(es, "present") > 0)
            THEN 1 ELSE 0
    /\ LET w == WriteLinks IN
       /\ Len(out) = Len(w)
       /\ \A k \in 1..Len(out) :
            /\ out[k].url = links[w[k]]
            /\ out[k].title = TitleOf(w[k])
    /\ (pc = "done" => i = Len(links) + 1)
    /\ (\E l \in LinkIdx : Processed(l)) => pc # "aborted"

\* the records of one title come from one resolution
C2_SharedResolution ==
    /\ \A r, s \in 1..Len(out) :
         out[r].title = out[s].title =>
            /\ out[r].wikitext = out[s].wikitext
            /\ out[r].revision_timestamp = out[s].revision_timestamp
    /\ LET fetched == SelectSeq(events, LAMBDA e :
                          e.ev = "request" /\ e.what = "present" /\ e.link >= 1)
       IN \A a, b \in 1..Len(fetched) :
              a < b => TitleOf(fetched[a].link) # TitleOf(fetched[b].link)

C2_JoinCompleteness == C2_OneRecordPerLink /\ C2_SharedResolution

(***************************************************************************)
(* C3  Missing-page caching: once the API has said that a title has no     *)
(* page or no revision, no later link with that title issues a request.    *)
(***************************************************************************)
C3_MissingPageCached ==
    prog = "fetch" =>
        \A l1, l2 \in LinkIdx :
            (l1 < l2 /\ ResolvedAbsent(l1) /\ TitleOf(l1) = TitleOf(l2)) => ~Fetched(l2)

(***************************************************************************)
(* C4  Retry bound: a fetch with retries (get_html of the seed page, link  *)
(* 0; fetch_wikitext_via_api of fetch_talkpages.py) never issues more than *)
(* Retries requests; the k-th failed attempt is followed by a sleep of     *)
(* BackoffBase * k seconds, so the delays grow strictly; a fetch whose     *)
(* attempts all failed has issued exactly Retries requests and has         *)
(* reported the failure: None to fetch_talkpages.main, an exception that   *)
(* ends scrape_drn.main.                                                   *)
(***************************************************************************)

Backoffs(l) ==
    LET b == SelectSeq(events, LAMBDA e : e.link = l /\ e.ev = "backoff")
    IN [k \in 1..Len(b) |-> b[k].secs]

RetryFetches == IF prog = "fetch" THEN LinkIdx ELSE {0}

\* the fetch of l is over
Over(l) == IF l = 0 THEN pc # "seed" ELSE Processed(l)

AllFailed(l) == Fetched(l) /\ CountClass(l, "error") = Count(l, "request")

C4_RetryBound ==
    \A l \in RetryFetches :
        LET es == EventsOf(l)
            bs == BackoffsIn(es)
            requests == CountIn(es, "request")
        IN
        /\ requests <= Retries
        /\ \A k \in 1..Len(es) :
             (es[k].ev = "request" /\ es[k].what = "error") =>
                /\ k < Len(es)
                /\ es[k + 1].ev = "backoff"
                /\ es[k + 1].secs = BackoffBase * ((k + 1) \div 2)
        /\ \A k \in 1..Len(bs) - 1 : bs[k] < bs[k + 1]
        /\ (Over(l) /\ requests > 0 /\ ClassIn(es, "error") = requests) =>
                /\ requests = Retries
                /\ bs = [k \in 1..Retries |-> BackoffBase * k]
                /\ IF l = 0 THEN pc = "aborted"
                   ELSE es[Len(es)] = Return(l, "None") /\ CountIn(es, "write") = 0

\* the first link's fetch failed Retries times and main went on to the second
C4_Witness ==
    /\ prog = "fetch" /\ Len(links) >= 2 /\ i = 2
    /\ Exhausted(1)
    /\ Backoffs(1) = <<2, 4, 6>>

(***************************************************************************)
(* C5  Transport failure versus page absent: what fetch_wikitext_via_api   *)
(* returns after its last failed attempt differs from what it returns for  *)
(* a page that is missing or has no revision, and main does different      *)
(* things after the two.                                                   *)
(***************************************************************************)
\* what main did for the link of return event k after the return
Handling(k) ==
    LET after == SelectSeq(SubSeq(events, k + 1, Len(events)),
                           LAMBDA e : e.link = events[k].link)
    IN [j \in 1..Len(after) |-> after[j].ev]

ReturnsAfterFailure(k) ==
    k > 1 /\ events[k].ev = "return" /\ events[k - 1].ev = "backoff"

ReturnsAfterAbsent(k) ==
    /\ k > 1 /\ events[k].ev = "return"
    /\ events[k - 1].ev = "request" /\ events[k - 1].what = "absent"

C5_FailureDistinctFromAbsent ==
    prog = "fetch" =>
        \A a, b \in EvIdx :
            (/\ ReturnsAfterFailure(a) /\ ReturnsAfterAbsent(b)
             /\ Processed(events[a].link) /\ Processed(events[b].link)) =>
                /\ events[a].what # events[b].what
                /\ Handling(a) # Handling(b)

(***************************************************************************)
(* C6  Output ordering: the records are written in the order of their      *)
(* links; the file is a subsequence of the input, whichever links were     *)
(* cache hits, misses or failures.                                         *)
(***************************************************************************)
C6_OutputOrder ==
    LET w == WriteLinks IN
    /\ Len(out) = Len(w)
    /\ \A k \in 1..Len(out) :
         /\ w[k] \in LinkIdx
         /\ out[k].url = links[w[k]]
    /\ \A j, k \in 1..Len(w) : j < k => w[j] < w[k]

\* the first link fetched, the second served from the cache
C6_Witness ==
    /\ prog = "fetch" /\ pc = "done"
    /\ WriteLinks = <<1, 2>>
    /\ out[1].url # out[2].url
    /\ Count(2, "hit") = 1

(***************************************************************************)
(* C7  Politeness delay: every processed link that went to the network is  *)
(* followed by exactly one politeness delay, whatever the request gave,    *)
(* and a link served from the cache by none.                               *)
(***************************************************************************)
C7_PolitenessDelay ==
    \A l \in LinkIdx :
        Processed(l) => Count(l, "polite") = IF Fetched(l) THEN 1 ELSE 0

(***************************************************************************)
(* C8  Failure propagation: the run is aborted exactly when every attempt  *)
(* to get the seed page has failed, and then no link has been resolved     *)
(* and nothing written; a failure of one link's request never ends the     *)
(* run, which is done only after the last link.                            *)
(***************************************************************************)
C8_FailurePropagation ==
    /\ pc = "aborted" <=> (prog = "scrape" /\ Exhausted(0))
    /\ pc = "aborted" =>
         /\ out = <<>>
         /\ links = <<>>
         /\ \A k \in EvIdx : events[k].link = 0
    /\ \A l \in LinkIdx : (Processed(l) \/ Fetched(l)) => pc \in {"loop", "fetch", "done"}
    /\ pc = "done" => i = Len(links) + 1

\* the seed page came at the third attempt, the first link's request raised
\* and the second link was then fetched and written
C8_Witness ==
    /\ prog = "scrape" /\ pc = "done"
    /\ CountClass(0, "error") = 2
    /\ \E k \in EvIdx : events[k] = Return(1, "raise")
    /\ Count(2, "write") = 1

(***************************************************************************)
(* C9  Extractor dedup and order.                                          *)
(* As claimed: each distinct Talk: link once, in the order of first        *)
(* occurrence in the document.                                             *)
(* As amended: each distinct Talk: link once, in ascending order of the    *)
(* urls.                                                                   *)
(***************************************************************************)
Extracted == prog = "scrape" /\ pc \in {"loop", "done"}

TalkUrls ==
    {WIKI_BASE \o html[k] : k \in {j \in 1..Len(html) : StartsWith(html[j], TalkPrefix)}}

C9_FirstOccurrenceOrder == Extracted => found = FirstOccurrences(html)

C9_SortedDistinct ==
    Extracted =>
        /\ {found[k] : k \in 1..Len(found)} = TalkUrls
        /\ \A j, k \in 1..Len(found) : j < k => Less(found[j], found[k])

\* a document with a repeated link whose links are not in ascending order
C9_Witness ==
    /\ Extracted
    /\ Len(html) = 3 /\ Len(found) = 2
    /\ \A k \in 1..3 : StartsWith(html[k], TalkPrefix)
    /\ found # FirstOccurrences(html)

(***************************************************************************)
(* C10  Cache immutability: no step removes a title from cached_pages or   *)
(* changes the data cached for it.                                         *)
(***************************************************************************)
C10_CacheImmutable ==
    [][\A t \in DOMAIN cached_pages :
          t \in DOMAIN cached_pages' /\ cached_pages'[t] = cached_pages[t]]_vars

\* a second title cached after the first
C10_Witness ==
    /\ prog = "fetch" /\ pc = "done"
    /\ Cardinality(DOMAIN cached_pages) = 2
    /\ Len(out) = 2 /\ out[1].title # out[2].title

(***************************************************************************)
(* C11  Streaming emission: no step changes or removes a record already    *)
(* written (the file after a step extends the file before it), and when a  *)
(* request for a link is issued the record of every earlier link that      *)
(* resolved present is already in the file.                                *)
(***************************************************************************)
\* the events a step adds
Added == SubSeq(events', Len(events) + 1, Len(events'))

\* the earlier links that resolved present
PresentBefore(l) == {m \in 1..(l - 1) : ResolvedPresent(m)}

C11_Streaming ==
    [][/\ Len(out') >= Len(out)
       /\ SubSeq(out', 1, Len(out)) = out
       /\ \A k \in 1..Len(Added) :
            (Added[k].ev = "request" /\ Added[k].link >= 1) =>
                /\ Len(out) = Cardinality(PresentBefore(Added[k].link))
                /\ \A m \in PresentBefore(Added[k].link) :
                     \E r \in 1..Len(out) : out[r].url = links[m]]_vars

\* the second link's request has been issued, after the first link's record
\* was written
C11_Witness ==
    /\ prog = "fetch" /\ pc = "fetch" /\ i = 2 /\ attempt = 1
    /\ Len(out) = 1
    /\ out[1].url = links[1]
    /\ links[2] # links[1]

(***************************************************************************)
(* The scenario of the specification: fetch_talkpages.main on the links    *)
(* Talk:X#SectionA, Talk:X#SectionB, Talk:Y, Talk:Z, with an API that has  *)
(* the text "foo" for Talk:X, no page Talk:Y and a page Talk:Z.  Attempts  *)
(* may fail, but not all the attempts of one fetch.                        *)
(***************************************************************************)
TalkX == <<"Talk:", "X">>
TalkY == <<"Talk:", "Y">>
TalkZ == <<"Talk:", "Z">>

ScenarioLinks ==
    << UrlPrefix \o TalkX \o <<"#", "SectionA">>,
       UrlPrefix \o TalkX \o <<"#", "SectionB">>,
       UrlPrefix \o TalkY,
       UrlPrefix \o TalkZ >>

InitScenario ==
    /\ prog = "fetch"
    /\ links = ScenarioLinks
    /\ html = <<>>
    /\ limit = 0
    /\ waited = 0
    /\ found = <<>>
    /\ i = 1
    /\ pc = "loop"
    /\ attempt = 0
    /\ cached_pages = <<>>
    /\ out = <<>>
    /\ events = <<>>

\* the answers so far are those of the scenario's API
ScenarioAnswers ==
    /\ \A k \in EvIdx :
         events[k].ev = "request" =>
            /\ TitleOf(events[k].link) \in {TalkX, TalkZ} => events[k].what \in {"error", "present"}
            /\ TitleOf(events[k].link) = TalkY => events[k].what \in {"error", "absent"}
    /\ \A l \in LinkIdx : CountClass(l, "error") < Retries
    /\ TalkX \in DOMAIN cached_pages => cached_pages[TalkX].wikitext = "foo"

ScenarioNext ==
    \/ ReadLine /\ ScenarioAnswers'
    \/ AttemptFails /\ ScenarioAnswers'
    \/ AttemptAnswers /\ ScenarioAnswers'
    \/ FetchDone

SpecScenario == InitScenario /\ [][ScenarioNext]_vars

(***************************************************************************)
(* C12  The scenario ends with exactly three records, in this order:       *)
(* Talk:X / SectionA / "foo", Talk:X / SectionB / "foo", Talk:Z / no       *)
(* anchor / the text of Talk:Z; none for Talk:Y; two successful            *)
(* resolutions, of Talk:X and Talk:Z, and one cache hit.                   *)
(***************************************************************************)
C12_Scenario ==
    pc = "done" =>
        /\ Len(out) = 3
        /\ out[1].title = TalkX /\ out[1].anchor = Some(<<"SectionA">>) /\ out[1].wikitext = "foo"
        /\ out[2].title = TalkX /\ out[2].anchor = Some(<<"SectionB">>) /\ out[2].wikitext = "foo"
        /\ out[3].title = TalkZ /\ out[3].anchor = None
        /\ out[3].wikitext = cached_pages[TalkZ].wikitext
        /\ \A k \in 1..Len(out) : out[k].title # TalkY
        /\ {l \in LinkIdx : CountClass(l, "present") > 0} = {1, 4}
        /\ \A l \in LinkIdx : CountClass(l, "present") <= 1
        /\ {l \in LinkIdx : Count(l, "hit") > 0} = {2}
        /\ Count(2, "hit") = 1

\* the scenario has ended, after failed attempts for Talk:X and Talk:Y
C12_Witness ==
    /\ links = ScenarioLinks /\ pc = "done"
    /\ Len(out) = 3
    /\ CountClass(1, "error") = 2
    /\ CountClass(3, "error") = 1
    /\ ResolvedAbsent(3)
    /\ out[3].wikitext = "bar"

(***************************************************************************)
(* split_title_and_anchor on its own: the url is the prefix, "Talk:" and   *)
(* up to MaxPath more tokens, among them "#" and the escape of "#".        *)
(***************************************************************************)
PathTokens == {"X", "#", "%23"}

SplitUrls == {UrlPrefix \o <<"Talk:">> \o p : p \in SeqsUpTo(PathTokens, MaxPath)}

InitSplit ==
    /\ prog = "split"
    /\ links \in {<<u>> : u \in SplitUrls}
    /\ html = <<>>
    /\ limit = 0
    /\ waited = 0
    /\ found = <<>>
    /\ i = 1
    /\ pc = "call"
    /\ attempt = 0
    /\ cached_pages = <<>>
    /\ out = <<>>
    /\ events = <<>>

\* title, anchor = split_title_and_anchor(url), line 105
SplitCall ==
    /\ prog = "split" /\ pc = "call"
    /\ out' = <<[title |-> Title, anchor |-> Anchor]>>
    /\ pc' = "done"
    /\ UNCHANGED <<prog, waited, html, limit, links, found, i, attempt, cached_pages, events>>

SpecSplit == InitSplit /\ [][SplitCall]_vars

(***************************************************************************)
(* C13  Link invariant: the title that split_title_and_anchor returns is   *)
(* not empty, and the anchor is None or a string that is not empty.        *)
(***************************************************************************)
C13_LinkInvariant ==
    (prog = "split" /\ pc = "done") =>
        /\ out[1].title # <<>>
        /\ out[1].anchor = None \/ out[1].anchor[1] # <<>>

(***************************************************************************)
(* C14  Archive pages: every archive page that the seed page links to is   *)
(* fetched (and skipped when all its attempts fail), so that the           *)
(* references of the other archive pages are extracted and resolved.       *)
(* Documents are numbered as get_html is called for them: 0 is the seed    *)
(* page, -n would be the n-th archive page.                                *)
(***************************************************************************)
ArchiveLinks ==
    {html[k] : k \in {j \in 1..Len(html) :
        html[j] = <<"/wiki/", "Wikipedia:", "Dispute_resolution_noticeboard/Archive_1">>}}

\* the documents get_html was called for
DocumentsFetched ==
    {events[k].link : k \in {j \in EvIdx : events[j].ev = "request" /\ events[j].link <= 0}}

C14_ArchivesFetched ==
    (prog = "scrape" /\ pc = "done") =>
        \A n \in 1..Cardinality(ArchiveLinks) : (0 - n) \in DocumentsFetched

(***************************************************************************)
(* extract_talk_links_from_html called twice on one document.  The links   *)
(* are collected in a Python set (line 48), whose iteration order is not   *)
(* fixed by the language: each call meets the set in some order of its     *)
(* own, and line 56 sorts what it meets.                                   *)
(***************************************************************************)
\* the orders in which a set can be iterated
Orders(S) ==
    {s \in SeqsUpTo(S, Cardinality(S)) :
        Len(s) = Cardinality(S) /\ {s[k] : k \in 1..Len(s)} = S}

\* lines 48-55: the set that the loop over the anchors builds
LinkSet(doc) ==
    {urljoin(WIKI_BASE, doc[k]) : k \in {j \in 1..Len(doc) : StartsWith(doc[j], TalkPrefix)}}

\* mutant of ExtractIterating: list(links) in place of sorted(links)
ExtractListing(order) == order

\* line 56: sorted(links), the set being iterated in this order
ExtractIterating(order) == sorted({order[k] : k \in 1..Len(order)})

InitExtract ==
    /\ prog = "extract"
    /\ html \in SeqsUpTo(Hrefs, MaxHrefs)
    /\ limit = 0
    /\ waited = 0
    /\ links = <<>>
    /\ found = <<>>
    /\ i = 1
    /\ pc = "call"
    /\ attempt = 0
    /\ cached_pages = <<>>
    /\ out = <<>>
    /\ events = <<>>

\* the first call, lines 46-56
ExtractCall ==
    /\ prog = "extract" /\ pc = "call"
    /\ \E order \in Orders(LinkSet(html)) : links' = ExtractIterating(order)
    /\ pc' = "again"
    /\ UNCHANGED <<prog, waited, html, limit, found, i, attempt, cached_pages, out, events>>

\* the second call on the same document, lines 46-56
ExtractAgain ==
    /\ prog = "extract" /\ pc = "again"
    /\ \E order \in Orders(LinkSet(html)) : found' = ExtractIterating(order)
    /\ pc' = "done"
    /\ UNCHANGED <<prog, waited, html, limit, links, i, attempt, cached_pages, out, events>>

SpecExtract == InitExtract /\ [][ExtractCall \/ ExtractAgain]_vars

(***************************************************************************)
(* C15  Dedup stability: two calls of extract_talk_links_from_html on the  *)
(* same document return the same ordered sequence, namely the sorted       *)
(* distinct Talk: urls of the document.                                    *)
(***************************************************************************)
C15_DedupStable ==
    (prog = "extract" /\ pc = "done") =>
        /\ links = found
        /\ found = extract_talk_links_from_html(html)

\* both calls made on a document with three different Talk: links
C15_Witness ==
    /\ prog = "extract" /\ pc = "done"
    /\ Len(html) = 3 /\ Len(links) = 3 /\ Len(found) = 3

(***************************************************************************)
(* C16  Absent is not retried: a response of fetch_wikitext_via_api that   *)
(* reports no pages, a missing page or no revisions is the last request    *)
(* for its link; None is returned right after it, without a backoff        *)
(* sleep.  Only the failed attempts before it were followed by a sleep.    *)
(***************************************************************************)
C16_AbsentNotRetried ==
    prog = "fetch" =>
        \A l \in LinkIdx :
            LET es == EventsOf(l) IN
            \A k \in 1..Len(es) :
                (es[k].ev = "request" /\ es[k].what = "absent") =>
                    /\ Len(es) = k + 1
                    /\ es[k + 1] = Return(l, "None")
                    /\ ClassIn(es, "absent") = 1
                    /\ CountIn(es, "request") = ClassIn(es, "error") + 1
                    /\ CountIn(es, "backoff") = ClassIn(es, "error")

\* the first attempt for link 1 fails, the second one finds no page
C16_Witness ==
    /\ prog = "fetch" /\ i = 2
    /\ EventsOf(1) = <<Ev("request", 1, "error", 0), Backoff(1, BackoffBase),
                       Ev("request", 1, "absent", 0), Return(1, "None")>>

(***************************************************************************)
(* C17  Shared resolution in the output of fetch_talkpages.main: a title   *)
(* is fetched with success at most once in a run, what that fetch          *)
(* returned is what cached_pages holds for the title (C10: for good), and  *)
(* every record written carries the text and the revision timestamp held   *)
(* there; so two records with the same title carry the same text and the   *)
(* same revision timestamp, whatever the API would answer later.           *)
(***************************************************************************)
C17_SharedResolution ==
    prog = "fetch" =>
        /\ \A r \in 1..Len(out) :
             /\ out[r].title \in DOMAIN cached_pages
             /\ out[r].wikitext = cached_pages[out[r].title].wikitext
             /\ out[r].revision_timestamp = cached_pages[out[r].title].timestamp
        /\ \A r, s \in 1..Len(out) :
             out[r].title = out[s].title =>
                /\ out[r].wikitext = out[s].wikitext
                /\ out[r].revision_timestamp = out[s].revision_timestamp
        /\ LET fetched == SelectSeq(events, LAMBDA e : e.ev = "request" /\ e.what = "present") IN
           \A a, b \in 1..Len(fetched) :
                a < b => TitleOf(fetched[a].link) # TitleOf(fetched[b].link)

\* two records of one title, the first from the API and the second from the cache
C17_Witness ==
    /\ prog = "fetch" /\ pc = "done"
    /\ Len(out) >= 2
    /\ out[1].title = out[2].title /\ out[1].url # out[2].url
    /\ CountClass(1, "present") = 1 /\ Count(2, "hit") = 1

(***************************************************************************)
(* C18  Early success stops retrying, in get_html (the seed page, link 0)  *)
(* and in fetch_wikitext_via_api of fetch_talkpages.py: when attempt k is  *)
(* the first one that does not fail, the fetch has made k requests and     *)
(* k - 1 backoff sleeps, of 1, 2, ..., k - 1 times the base delay; the     *)
(* result of attempt k is returned at once, and the fetch makes no         *)
(* request and no backoff sleep after it.                                  *)
(***************************************************************************)
C18_EarlySuccess ==
    \A l \in RetryFetches :
        LET es == EventsOf(l)
            bs == BackoffsIn(es)
        IN
        \A p \in 1..Len(es) :
            (es[p].ev = "request" /\ es[p].what # "error") =>
                LET k == (p + 1) \div 2 IN
                /\ p = 2 * k - 1
                /\ k <= Retries
                /\ CountIn(es, "request") = k
                /\ bs = [j \in 1..(k - 1) |-> BackoffBase * j]
                /\ \A q \in (p + 1)..Len(es) : es[q].ev \notin {"request", "backoff"}
                /\ IF l = 0 THEN pc \in {"loop", "done"}
                   ELSE /\ p < Len(es)
                        /\ es[p + 1] =
                             Return(l, IF es[p].what = "present" THEN "data" ELSE "None")

\* two failed attempts for link 1, then a page
C18_Witness ==
    /\ prog = "fetch" /\ i = 2
    /\ CountClass(1, "error") = 2 /\ CountClass(1, "present") = 1
    /\ Backoffs(1) = <<BackoffBase, BackoffBase * 2>>
    /\ Len(out) = 1

(***************************************************************************)
(* A run of fetch_talkpages.main that goes on.  The program is             *)
(* sequential: the statement it is at is executed, every requests.get      *)
(* ends within its timeout of 30 seconds (line 44) with a response or an   *)
(* exception, and every time.sleep ends.  Hence weak fairness of the       *)
(* next step.                                                              *)
(***************************************************************************)
InitFetchLive == InitFetch /\ Len(links) <= MaxLiveLinks

NextFetch == ReadLine \/ AttemptFails \/ AttemptAnswers \/ FetchDone

SpecFetchLive == InitFetchLive /\ [][NextFetch]_vars /\ WF_vars(NextFetch)

\* the requests made so far
Requests == Len(SelectSeq(events, LAMBDA e : e.ev = "request"))

(***************************************************************************)
(* C19  Termination: whatever the API answers, fetch_talkpages.main        *)
(* eventually ends, every link then processed, and it never makes more     *)
(* than Retries requests per input link.                                   *)
(***************************************************************************)
C19_Termination ==
    /\ <>(pc = "done" /\ i = Len(links) + 1)
    /\ [](Requests <= Retries * Len(links))

\* the run has ended after every attempt for each of two links failed
C19_Witness ==
    /\ prog = "fetch" /\ pc = "done"
    /\ Len(links) = 2 /\ i = 3
    /\ Requests = Retries * 2

=============================================================================
